---- MODULE Spec2Model ----
(***************************************************************************)
(* Model of dynpy: the path-file view model of PythonConfigController      *)
(* (src/dynpy/ui/controller.py), the tree view listeners that register     *)
(* nodes (src/dynpy/ui/view.py) and the file service                       *)
(* (src/dynpy/service.py).                                                 *)
(*                                                                         *)
(* Strings are sequences of one-character strings, so that prefix tests,   *)
(* replacement, joining and line splitting are computed, not assumed.      *)
(* Tree item ids ("I001", "I002", ...) are the naturals 1, 2, ...; the     *)
(* insertion order of the controller's uuid dict is the ascending order of *)
(* the ids, because every key is inserted with a fresh, larger id.         *)
(*                                                                         *)
(* The commands are the controller's handlers and can be taken in every    *)
(* state. enabled records which buttons the selection listener left        *)
(* enabled; it does not guard the commands (with it as a guard the Remove   *)
(* button is never enabled for a path file). The directory dialog returns  *)
(* one of Directories; a cancelled dialog is not among the inputs.         *)
(***************************************************************************)
EXTENDS Integers, Sequences, FiniteSets, TLC

VARIABLES python, uuid, deleted, current_id, tree_serial, disk, enabled, last,
          nin, nout, nout2, npc, fin, fout

vars == <<python, uuid, deleted, current_id, tree_serial, disk, enabled, last,
          nin, nout, nout2, npc, fin, fout>>

ctlVars == <<python, uuid, deleted, current_id, tree_serial, disk, enabled, last>>

\* the input, the results and the position of a function of service.py that
\* is applied on its own
normVars == <<nin, nout, nout2, npc, fin, fout>>

(***************************************************************************)
(* Bounds                                                                  *)
(***************************************************************************)
\* largest tree item id the view hands out in a run
MaxId == 5

\* number of tokens of an input string of the normalizer
MaxTokens == 6

\* number of characters of a display name given to embed_python_by
MaxNameLen == 5

\* number of archives in the embed directory
MaxArchives == 3

(***************************************************************************)
(* Strings                                                                 *)
(***************************************************************************)
NoId == 0

NL == "\n"

BS == "\\"

StartsWith(s, p) ==
  Len(s) >= Len(p) /\ SubSeq(s, 1, Len(p)) = p

RemovePrefix(s, p) ==
  IF StartsWith(s, p) THEN SubSeq(s, Len(p) + 1, Len(s)) ELSE s

Replace(s, old, new) ==
  [i \in 1..Len(s) |-> IF s[i] = old THEN new ELSE s[i]]

Contains(sub, s) ==
  \E i \in 0..(Len(s) - Len(sub)) : SubSeq(s, i + 1, i + Len(sub)) = sub

RECURSIVE Join(_, _)
Join(lines, sep) ==
  IF lines = <<>> THEN <<>>
  ELSE IF Len(lines) = 1 THEN lines[1]
  ELSE lines[1] \o <<sep>> \o Join(Tail(lines), sep)

RECURSIVE SplitFrom(_, _, _)
SplitFrom(text, i, cur) ==
  IF i > Len(text) THEN (IF cur = <<>> THEN <<>> ELSE <<cur>>)
  ELSE IF text[i] = NL THEN <<cur>> \o SplitFrom(text, i + 1, <<>>)
  ELSE SplitFrom(text, i + 1, Append(cur, text[i]))

splitlines(text) == SplitFrom(text, 1, <<>>)

Digit(d) == <<"0", "1", "2", "3", "4", "5", "6", "7", "8", "9">>[d + 1]

RECURSIVE IntToStr(_)
IntToStr(n) ==
  IF n < 10 THEN <<Digit(n)>> ELSE IntToStr(n \div 10) \o <<Digit(n % 10)>>

(***************************************************************************)
(* service.py: PathNormalizer                                              *)
(***************************************************************************)
wsl_mount == <<"/", "m", "n", "t", "/", "c", "/">>

_get_path(path) ==
  LET p == IF StartsWith(path, wsl_mount)
           THEN <<"C", ":", "/">> \o RemovePrefix(path, wsl_mount)
           ELSE path
  IN Replace(p, BS, "/")

(***************************************************************************)
(* service.py: version records                                             *)
(***************************************************************************)
EmbedPython(path, major, minor, tag, architecture) ==
  [path |-> path, major |-> major, minor |-> minor, tag |-> tag,
   architecture |-> architecture]

\* self.python = None
NoPython == EmbedPython(<<>>, 0, <<>>, <<>>, <<>>)

\* a variant in which every field is compared
EmbedPythonEq_all(a, b) ==
  /\ a.path = b.path /\ a.major = b.major /\ a.minor = b.minor
  /\ a.tag = b.tag /\ a.architecture = b.architecture

\* dataclass equality: tag and architecture are declared compare=False
EmbedPythonEq(a, b) ==
  a.path = b.path /\ a.major = b.major /\ a.minor = b.minor

short_version(py) == IntToStr(py.major) \o <<".">> \o py.minor

long_version(py) == short_version(py) \o <<".">> \o py.tag

full_name(py) == <<"P", "y", "t", "h", "o", "n", " ">> \o long_version(py)

amd64 == <<"a", "m", "d", "6", "4">>

\* the archives found in the embed directory, in glob order
embed_versions ==
  << EmbedPython(<<"z", "1">>, 3, <<"9">>, <<"1", "2">>, amd64),
     EmbedPython(<<"z", "2">>, 3, <<"1">>, <<"0">>, amd64),
     EmbedPython(<<"z", "3">>, 3, <<"1", "0">>, <<"0">>, amd64) >>

_is_embed_python(name, embed) == Contains(short_version(embed), name)

\* a variant in which the loop goes on after a match: the last match is returned
FirstEmbed_last(name, i) ==
  LET Q == {j \in i..Len(embed_versions) : _is_embed_python(name, embed_versions[j])}
  IN IF Q = {} THEN NoPython
     ELSE embed_versions[CHOOSE j \in Q : \A k \in Q : k <= j]

\* embed_python_by(name, search_path): the loop over the versions from the i-th
RECURSIVE FirstEmbed(_, _)
FirstEmbed(name, i) ==
  IF i > Len(embed_versions) THEN NoPython
  ELSE IF _is_embed_python(name, embed_versions[i]) THEN embed_versions[i]
  ELSE FirstEmbed(name, i + 1)

\* len(name.strip()) == 0
IsBlank(name) == \A i \in 1..Len(name) : name[i] \in {" ", "\t", NL}

embed_python_by(name) ==
  IF IsBlank(name) THEN NoPython ELSE FirstEmbed(name, 1)

user_site_pkg_path(py) ==
  <<"P", "y", "t", "h", "o", "n">> \o IntToStr(py.major) \o py.minor

(***************************************************************************)
(* service.py: path files on disk                                          *)
(***************************************************************************)
FileNames == {<<"a">>, <<"b">>}

SiteDirs == {user_site_pkg_path(embed_versions[i]) : i \in 1..Len(embed_versions)}

\* site_path / f"{name}.pth"
PathOf(dir, name) == [dir |-> dir, name |-> name]

Paths == {PathOf(d, n) : d \in SiteDirs, n \in FileNames}

Absent == [exists |-> FALSE, text |-> <<>>]

Present(text) == [exists |-> TRUE, text |-> text]

PythonPathFile(path, content) == [path |-> path, content |-> content]

read_path_file(d, path) == splitlines(d[path].text)

\* the directories the user can pick in the directory dialog
DirA == <<"/", "m", "n", "t", "/", "c", "/", "a">>

DirB == <<"C", ":", BS, "b">>

Directories == {DirA, DirB}

InitDisk ==
  [p \in Paths |->
     IF p.dir = user_site_pkg_path(embed_versions[1])
     THEN (IF p.name = <<"a">> THEN Present(Join(<<DirA, DirB>>, NL))
           ELSE Present(<<>>))
     ELSE IF p.dir = user_site_pkg_path(embed_versions[3]) /\ p.name = <<"b">>
     THEN Present(DirB)
     ELSE Absent]

write_path_file(d, path_file) ==
  LET lines == [i \in 1..Len(path_file.content) |-> _get_path(path_file.content[i])]
  IN [d EXCEPT ![path_file.path] = Present(Join(lines, NL))]

\* site.path_files is visited in order; the first exception ends the loop.
\* fail is the path (or NoPath) whose write or delete the OS refuses.
NoPath == PathOf(<<>>, <<>>)

RECURSIVE save_site_package(_, _, _, _, _)
save_site_package(files, i, d, log, fail) ==
  IF i > Len(files) THEN [disk |-> d, log |-> log, err |-> "none"]
  ELSE LET f == files[i]
           op == IF f.content = <<>> THEN "remove" ELSE "write"
       IN IF f.path = fail
          THEN [disk |-> d, err |-> "OSError",
                log |-> Append(log, [path |-> f.path, op |-> op, ok |-> FALSE])]
          ELSE IF op = "remove" /\ ~d[f.path].exists
          THEN [disk |-> d, err |-> "FileNotFoundError",
                log |-> Append(log, [path |-> f.path, op |-> op, ok |-> FALSE])]
          ELSE save_site_package(files, i + 1,
                 IF op = "remove" THEN [d EXCEPT ![f.path] = Absent]
                 ELSE write_path_file(d, f),
                 Append(log, [path |-> f.path, op |-> op, ok |-> TRUE]), fail)

(***************************************************************************)
(* controller.py: view models                                              *)
(***************************************************************************)
PathEntryViewModel(path, parent_uuid, id, changed) ==
  [kind |-> "entry", path |-> path, content |-> <<>>, uuid |-> id,
   parent_uuid |-> parent_uuid, changed |-> changed]

\* content holds the ids of the entry objects, in list order
PathFileViewModel(path, content, id, changed) ==
  [kind |-> "file", path |-> path, content |-> content, uuid |-> id,
   parent_uuid |-> NoId, changed |-> changed]

\* dataclass equality of two PathEntryViewModel objects: all four fields
EntryEq(a, b) ==
  /\ a.path = b.path
  /\ a.parent_uuid = b.parent_uuid
  /\ a.uuid = b.uuid
  /\ a.changed = b.changed

is_empty(model) == Len(model.content) = 0

\* the empty dict
EmptyDict == [id \in {} |-> 0]

RECURSIVE SortedSeq(_)
SortedSeq(S) ==
  IF S = {} THEN <<>>
  ELSE LET m == CHOOSE x \in S : \A y \in S : x <= y
       IN <<m>> \o SortedSeq(S \ {m})

SeqRange(s) == {s[i] : i \in 1..Len(s)}

NoDup(s) == \A i, j \in 1..Len(s) : s[i] = s[j] => i = j

RECURSIVE RemoveFirst(_, _)
RemoveFirst(s, x) ==
  IF s = <<>> THEN <<>>
  ELSE IF Head(s) = x THEN Tail(s)
  ELSE <<Head(s)>> \o RemoveFirst(Tail(s), x)

\* PathFileViewModel.add: model is appended unless an equal object is in
\* content; the object gets the id new_id when the view registers it
add(u, fid, model, new_id) ==
  IF \E i \in 1..Len(u[fid].content) : EntryEq(model, u[u[fid].content[i]])
  THEN u
  ELSE [u EXCEPT ![fid].content = Append(@, new_id), ![fid].changed = TRUE]

\* PathFileViewModel.remove
remove(u, fid, id) ==
  IF id \notin SeqRange(u[fid].content) THEN u
  ELSE [u EXCEPT ![fid].content = RemoveFirst(@, id), ![fid].changed = TRUE]

\* PathFileViewModel.create: the new object has uuid "" when add compares it
create(u, fid, path, new_id) ==
  add(u, fid, PathEntryViewModel(path, u[fid].uuid, NoId, TRUE), new_id)

\* SitePackageView.add_item: the tree hands out tree_id, the model is
\* stamped with it and registered
add_item(u, parent, model, tree_id) ==
  (tree_id :> [model EXCEPT !.uuid = tree_id, !.parent_uuid = parent]) @@ u

\* a variant in which the view models of the lines start as changed
_add_python_path_file_dirty(u, n, file) ==
  LET fid == n + 1
      k == Len(file.content)
      ids == [j \in 1..k |-> fid + j]
      fm == add_item(u, NoId, PathFileViewModel(file.path, ids, NoId, FALSE), fid)
      em == [id \in {fid + j : j \in 1..k} |->
               add_item(EmptyDict, fid,
                        PathEntryViewModel(file.content[id - fid], fid, NoId, TRUE),
                        id)[id]]
  IN [uuid |-> em @@ fm, serial |-> fid + k]

\* a variant that registers the view models of the lines without a parent
_add_python_path_file_no_parent(u, n, file) ==
  LET fid == n + 1
      k == Len(file.content)
      ids == [j \in 1..k |-> fid + j]
      fm == add_item(u, NoId, PathFileViewModel(file.path, ids, NoId, FALSE), fid)
      em == [id \in {fid + j : j \in 1..k} |->
               add_item(EmptyDict, NoId,
                        PathEntryViewModel(file.content[id - fid], fid, NoId, FALSE),
                        id)[id]]
  IN [uuid |-> em @@ fm, serial |-> fid + k]

\* create_view_model + SitePackageView._add_python_path_file: the file takes
\* id n + 1 and its setter stamps the entries, which then take the next ids
_add_python_path_file(u, n, file) ==
  LET fid == n + 1
      k == Len(file.content)
      ids == [j \in 1..k |-> fid + j]
      fm == add_item(u, NoId, PathFileViewModel(file.path, ids, NoId, FALSE), fid)
      em == [id \in {fid + j : j \in 1..k} |->
               add_item(EmptyDict, fid,
                        PathEntryViewModel(file.content[id - fid], fid, NoId, FALSE),
                        id)[id]]
  IN [uuid |-> em @@ fm, serial |-> fid + k]

RECURSIVE on_python_version_changed(_, _, _, _)
on_python_version_changed(files, i, u, n) ==
  IF i > Len(files) THEN [uuid |-> u, serial |-> n]
  ELSE LET r == _add_python_path_file(u, n, files[i])
       IN on_python_version_changed(files, i + 1, r.uuid, r.serial)

\* path_files_from: the files of the site directory, in glob order
RECURSIVE path_files_from(_, _, _)
path_files_from(d, dir, order) ==
  IF order = <<>> THEN <<>>
  ELSE LET p == PathOf(dir, Head(order))
           rest == path_files_from(d, dir, Tail(order))
       IN IF d[p].exists
          THEN <<PythonPathFile(p, read_path_file(d, p))>> \o rest
          ELSE rest

GlobOrders == {<< <<"a">>, <<"b">> >>}

NodesNeeded(files) ==
  LET RECURSIVE Sum(_)
      Sum(i) == IF i > Len(files) THEN 0
                ELSE 1 + Len(files[i].content) + Sum(i + 1)
  IN Sum(1)

\* a variant that returns only the first registered entry
_get_child_of_first(u, current) ==
  IF current.kind = "entry" THEN <<>>
  ELSE LET kids == SortedSeq({id \in DOMAIN u :
                     u[id].kind = "entry" /\ u[id].parent_uuid = current.uuid})
       IN IF kids = <<>> THEN <<>> ELSE <<kids[1]>>

\* a variant that never finds an entry
_get_child_of_none(u, current) == <<>>

\* _get_child_of: the entries registered under current, in dict order
_get_child_of(u, current) ==
  IF current.kind = "entry" THEN <<>>
  ELSE SortedSeq({id \in DOMAIN u :
                    u[id].kind = "entry" /\ u[id].parent_uuid = current.uuid})

_path_file_models(u) == SortedSeq({id \in DOMAIN u : u[id].kind = "file"})

_create_py_path(u, model) ==
  LET kids == _get_child_of(u, model)
  IN PythonPathFile(model.path, [i \in 1..Len(kids) |-> u[kids[i]].path])

_create_python_path_files(u) ==
  LET fs == _path_file_models(u)
  IN [i \in 1..Len(fs) |-> _create_py_path(u, u[fs[i]])]

\* PathEntryFunctions.on_selection_changed: the buttons left enabled
on_selection_changed(py, u, id) ==
  IF py = NoPython \/ id \notin DOMAIN u THEN {}
  ELSE IF u[id].kind = "file" THEN {"save", "add"}
  ELSE {"save", "add", "remove", "open"}

\* the last command: the node (for add_entry and for the removal of an entry:
\* the path file concerned) and the string it was given (for a version
\* select: the answer to the prompt), how it ended
\* ("ok", "return" or the exception raised), for save the files visited and
\* for the removal of a path file the location of that file
Last(cmd, id, val, out, log) ==
  [cmd |-> cmd, id |-> id, val |-> val, out |-> out, log |-> log,
   path |-> NoPath]

\* _current_model: the exception it raises, if any
CurrentModelErr == current_id = NoId \/ current_id \notin DOMAIN uuid

\* a variant that does not look at the deletion log
contains_unsaved_no_log(answer) ==
  IF ~ \E id \in DOMAIN uuid : uuid[id].changed THEN FALSE
  ELSE answer

\* answer is what the user answers when ask_safe_changes is shown
contains_unsaved(answer) ==
  IF Len(deleted) > 0 THEN TRUE
  ELSE IF ~ \E id \in DOMAIN uuid : uuid[id].changed THEN FALSE
  ELSE answer


(***************************************************************************)
(* The normalizer applied once and twice to an input string                *)
(***************************************************************************)
Tokens == {<<"/">>, <<BS>>, <<"m", "n", "t">>, <<"c">>, <<"x">>}

RECURSIVE Flatten(_)
Flatten(ts) == IF ts = <<>> THEN <<>> ELSE Head(ts) \o Flatten(Tail(ts))

NormInputs ==
  {Flatten(ts) : ts \in UNION {[1..n -> Tokens] : n \in 0..MaxTokens}}

NormalizeOnce ==
  /\ npc = "start"
  /\ nout' = _get_path(nin)
  /\ npc' = "once"
  /\ UNCHANGED <<nin, nout2, fin, fout, ctlVars>>

NormalizeTwice ==
  /\ npc = "once"
  /\ nout2' = _get_path(nout)
  /\ npc' = "twice"
  /\ UNCHANGED <<nin, nout, fin, fout, ctlVars>>

(***************************************************************************)
(* controller.py: the commands                                             *)
(***************************************************************************)
InitCtl ==
  /\ python = NoPython
  /\ uuid = EmptyDict
  /\ deleted = <<>>
  /\ current_id = NoId
  /\ tree_serial = 0
  /\ disk = InitDisk
  /\ enabled = {}
  /\ last = Last("init", NoId, <<>>, "ok", <<>>)

Init ==
  /\ InitCtl
  /\ nin = <<>>
  /\ nout = <<>>
  /\ nout2 = <<>>
  /\ npc = "idle"
  /\ fin = <<>>
  /\ fout = <<>>

Return(cmd, out) ==
  /\ last' = Last(cmd, NoId, <<>>, out, <<>>)
  /\ UNCHANGED <<python, uuid, deleted, current_id, tree_serial, disk, enabled>>

\* a variant in which the command returns silently when no model is found
NoModel_silent(cmd) == Return(cmd, "return")

\* _current_model raises: the exception leaves the command, nothing changes
NoModel(cmd) == Return(cmd, "Exception")

\* a variant of reset that leaves the uuid dict as it is
reset_keeps_uuid ==
  [uuid |-> uuid, deleted |-> <<>>, current_id |-> NoId, python |-> NoPython]

\* PythonConfigController.reset: the fields after the call
reset ==
  [uuid |-> EmptyDict, deleted |-> <<>>, current_id |-> NoId, python |-> NoPython]

\* reset, the PYTHON listener of the tree view and fire_selection_changed
\* prompt is kept for the record of the command
fire_python_changed(version, order, prompt) ==
  LET py == embed_python_by(version)
      files == path_files_from(disk, user_site_pkg_path(py), order)
      rs == reset
      r == on_python_version_changed(files, 1, rs.uuid, tree_serial)
  IN IF py = NoPython THEN Return("on_version_select", "Exception")
     ELSE IF EmbedPythonEq(python, py) THEN Return("on_version_select", "return")
     ELSE /\ tree_serial + NodesNeeded(files) <= MaxId
          /\ python' = py
          /\ uuid' = r.uuid
          /\ tree_serial' = r.serial
          /\ deleted' = rs.deleted
          /\ current_id' = rs.current_id
          /\ enabled' = on_selection_changed(py, r.uuid, rs.current_id)
          /\ last' = Last("on_version_select", NoId, prompt, "ok", <<>>)
          /\ UNCHANGED disk

\* the answer given to ask_safe_changes, <<>> when it is not shown
Prompt(answer) ==
  IF python # NoPython /\ Len(deleted) = 0
     /\ \E id \in DOMAIN uuid : uuid[id].changed
  THEN (IF answer THEN <<"y">> ELSE <<"n">>)
  ELSE <<>>

on_version_select ==
  /\ UNCHANGED normVars
  /\ \E answer \in BOOLEAN :
       IF python # NoPython /\ contains_unsaved(answer)
       THEN /\ last' = Last("on_version_select", NoId, Prompt(answer), "unsaved", <<>>)
            /\ UNCHANGED <<python, uuid, deleted, current_id, tree_serial, disk, enabled>>
       ELSE \E index \in 0..Len(embed_versions) :
              IF index = 0 THEN Return("on_version_select", "return")
              ELSE \E order \in GlobOrders :
                     fire_python_changed(full_name(embed_versions[index]), order,
                                         Prompt(answer))

python_path_selected ==
  \E id \in DOMAIN uuid :
    /\ current_id' = id
    /\ enabled' = on_selection_changed(python, uuid, id)
    /\ last' = Last("python_path_selected", NoId, <<>>, "ok", <<>>)
    /\ UNCHANGED <<python, uuid, deleted, tree_serial, disk, normVars>>

\* model.create(path) followed by the PATH_ADD listener (add_item)
_add_path_entry(fid, path) ==
  LET new_id == tree_serial + 1
      u1 == create(uuid, fid, path, new_id)
  IN /\ new_id <= MaxId
     /\ uuid' = add_item(u1, fid, PathEntryViewModel(path, fid, NoId, TRUE), new_id)
     /\ tree_serial' = new_id
     /\ last' = Last("add_entry", fid, path, "ok", <<>>)
     /\ UNCHANGED <<python, deleted, current_id, disk, enabled>>

NoName == <<>>

\* a variant in which the new path file is not marked as changed
_add_path_file_clean(name) ==
  IF python = NoPython \/ name = NoName THEN Return("add_file", "return")
  ELSE LET new_id == tree_serial + 1
           path == PathOf(user_site_pkg_path(python), name)
       IN /\ new_id <= MaxId
          /\ uuid' = add_item(uuid, NoId, PathFileViewModel(path, <<>>, NoId, FALSE), new_id)
          /\ tree_serial' = new_id
          /\ last' = Last("add_file", NoId, <<>>, "ok", <<>>)
          /\ UNCHANGED <<python, deleted, current_id, disk, enabled>>

\* the dialog's name (NoName: cancelled), then the PATH_ADD listener (add_item)
_add_path_file(name) ==
  IF python = NoPython \/ name = NoName THEN Return("add_file", "return")
  ELSE LET new_id == tree_serial + 1
           path == PathOf(user_site_pkg_path(python), name)
       IN /\ new_id <= MaxId
          /\ uuid' = add_item(uuid, NoId, PathFileViewModel(path, <<>>, NoId, TRUE), new_id)
          /\ tree_serial' = new_id
          /\ last' = Last("add_file", NoId, <<>>, "ok", <<>>)
          /\ UNCHANGED <<python, deleted, current_id, disk, enabled>>

path_entry_add_command ==
  /\ UNCHANGED normVars
  /\ IF CurrentModelErr THEN NoModel("add")
     ELSE LET model == uuid[current_id]
          IN IF model.kind = "entry"
             THEN (IF model.parent_uuid \notin DOMAIN uuid
                   THEN Return("add", "KeyError")
                   ELSE IF uuid[model.parent_uuid].kind = "entry"
                   THEN Return("add", "Exception")
                   ELSE \E path \in Directories :
                          _add_path_entry(model.parent_uuid, path))
             ELSE IF is_empty(model)
             THEN \E path \in Directories : _add_path_entry(current_id, path)
             ELSE \E name \in FileNames \cup {NoName} : _add_path_file(name)

\* the PATH_REMOVE listener deletes the tree items; then
\* _update_models_in_uuid_dict and _update_path_file_model
path_entry_remove_command ==
  /\ UNCHANGED normVars
  /\ IF CurrentModelErr THEN NoModel("remove")
     ELSE LET current == uuid[current_id]
              models == <<current_id>> \o _get_child_of(uuid, current)
              u1 == [id \in DOMAIN uuid \ SeqRange(models) |-> uuid[id]]
              parent == current.parent_uuid
          IN /\ deleted' = deleted \o models
             /\ UNCHANGED <<python, current_id, tree_serial, disk, enabled>>
             /\ IF current.kind = "file"
                THEN /\ uuid' = u1
                     /\ last' = [Last("remove", NoId, <<>>, "ok", <<>>)
                                   EXCEPT !.path = current.path]
                ELSE IF parent \notin DOMAIN u1
                THEN /\ uuid' = u1
                     /\ last' = Last("remove", NoId, <<>>, "KeyError", <<>>)
                ELSE IF u1[parent].kind = "entry"
                THEN /\ uuid' = u1
                     /\ last' = Last("remove", NoId, <<>>, "Exception", <<>>)
                ELSE /\ uuid' = remove(u1, parent, current_id)
                     /\ last' = Last("remove", parent, <<>>, "ok", <<>>)

path_entry_open_command ==
  /\ UNCHANGED normVars
  /\ IF CurrentModelErr THEN NoModel("open")
     ELSE Return("open", "ok")

path_entry_save_command ==
  /\ UNCHANGED normVars
  /\ IF python = NoPython THEN Return("save", "return")
     ELSE LET path_files == _create_python_path_files(uuid)
          IN \E fail \in {NoPath} \cup {path_files[i].path : i \in 1..Len(path_files)} :
               LET r == save_site_package(path_files, 1, disk, <<>>, fail)
               IN /\ disk' = r.disk
                  /\ last' = Last("save", NoId, <<>>,
                                  IF r.err = "none" THEN "ok" ELSE r.err, r.log)
                  /\ UNCHANGED <<python, uuid, deleted, current_id, tree_serial, enabled>>

Next ==
  \/ on_version_select
  \/ python_path_selected
  \/ path_entry_add_command
  \/ path_entry_remove_command
  \/ path_entry_open_command
  \/ path_entry_save_command

Spec == Init /\ [][Next]_vars

\* a version select that makes another version the active one
Switch == on_version_select /\ python' # python

\* the session of a user who keeps selecting versions: when a switch is
\* possible again and again, a switch is made
SpecSession == Init /\ [][Next]_vars /\ SF_vars(Switch)

\* an add command that registers a new path file
AddFile ==
  path_entry_add_command /\ last'.cmd = "add_file" /\ last'.out = "ok"

\* the session of a user who keeps adding path files: when adding a path
\* file is possible again and again, a path file is added
SpecAdding == Init /\ [][Next]_vars /\ SF_vars(AddFile)

InitNormalize ==
  /\ InitCtl
  /\ nin \in NormInputs
  /\ nout = <<>>
  /\ nout2 = <<>>
  /\ npc = "start"
  /\ fin = <<>>
  /\ fout = <<>>

NextNormalize == NormalizeOnce \/ NormalizeTwice

SpecNormalize == InitNormalize /\ [][NextNormalize]_vars

(***************************************************************************)
(* service.py: PYTHON_PATTERN and the discovery of one archive             *)
(***************************************************************************)
Digits == {"0", "1", "2", "3", "4", "5", "6", "7", "8", "9"}

Letters ==
  {"a", "b", "c", "d", "e", "f", "g", "h", "i", "j", "k", "l", "m", "n", "o",
   "p", "q", "r", "s", "t", "u", "v", "w", "x", "y", "z", "A", "B", "C", "D",
   "E", "F", "G", "H", "I", "J", "K", "L", "M", "N", "O", "P", "Q", "R", "S",
   "T", "U", "V", "W", "X", "Y", "Z"}

\* [0-9a-zA-Z]
Alnum == Digits \cup Letters

Min(a, b) == IF a <= b THEN a ELSE b

SetMax(S) == CHOOSE x \in S : \A y \in S : y <= x

\* the literal lit stands in name at position i
At(name, i, lit) ==
  i + Len(lit) - 1 <= Len(name) /\ SubSeq(name, i, i + Len(lit) - 1) = lit

\* the pattern "." at position i: any character but the newline
Dot(name, i) == i <= Len(name) /\ name[i] # NL

\* the number of characters of class from position i on
RECURSIVE RunLen(_, _, _)
RunLen(name, i, class) ==
  IF i > Len(name) \/ name[i] \notin class THEN 0
  ELSE 1 + RunLen(name, i + 1, class)

\* the number of characters other than the newline from position i on
RECURSIVE DotRun(_, _)
DotRun(name, i) ==
  IF ~Dot(name, i) THEN 0 ELSE 1 + DotRun(name, i + 1)

\* "$": the end of the string, or the newline that ends it
AtEnd(name, i) ==
  i = Len(name) + 1 \/ (i = Len(name) /\ name[i] = NL)

\* the lengths of the group arch, which starts at i, with which the rest of
\* the pattern, ".zip$", matches
ArchLens(name, i) ==
  {d \in 0..DotRun(name, i) :
     /\ Dot(name, i + d)
     /\ At(name, i + d + 1, <<"z", "i", "p">>)
     /\ AtEnd(name, i + d + 4)}

\* the lengths of the group tag, which starts at i, with which the rest matches
TagLens(name, i, tag_max) ==
  {c \in 0..Min(tag_max, RunLen(name, i, Alnum)) :
     /\ At(name, i + c, <<"-", "e", "m", "b", "e", "d", "-">>)
     /\ ArchLens(name, i + c + 7) # {}}

\* the lengths of the group minor, which starts at i, with which the rest matches
MinorLens(name, i, minor_max, tag_max) ==
  {b \in 0..Min(minor_max, RunLen(name, i, Alnum)) :
     /\ Dot(name, i + b)
     /\ TagLens(name, i + b + 1, tag_max) # {}}

\* the lengths of the group major, which starts at i, with which the rest matches
MajorLens(name, i, minor_max, tag_max) ==
  {a \in 1..RunLen(name, i, Digits) :
     /\ Dot(name, i + a)
     /\ MinorLens(name, i + a + 1, minor_max, tag_max) # {}}

NoMatch ==
  [matched |-> FALSE, major |-> <<>>, minor |-> <<>>, tag |-> <<>>, arch |-> <<>>]

\* re.match of the pattern with the quantifiers {,minor_max} and {,tag_max}:
\* every quantifier is greedy, so the match found first takes each group as
\* long as the rest of the pattern allows, the groups in order
Match(name, minor_max, tag_max) ==
  LET i == 8
  IN IF ~At(name, 1, <<"p", "y", "t", "h", "o", "n", "-">>)
        \/ MajorLens(name, i, minor_max, tag_max) = {}
     THEN NoMatch
     ELSE LET a == SetMax(MajorLens(name, i, minor_max, tag_max))
              b == SetMax(MinorLens(name, i + a + 1, minor_max, tag_max))
              c == SetMax(TagLens(name, i + a + b + 2, tag_max))
              d == SetMax(ArchLens(name, i + a + b + c + 9))
          IN [matched |-> TRUE,
              major |-> SubSeq(name, i, i + a - 1),
              minor |-> SubSeq(name, i + a + 1, i + a + b),
              tag |-> SubSeq(name, i + a + b + 2, i + a + b + c + 1),
              arch |-> SubSeq(name, i + a + b + c + 9, i + a + b + c + d + 8)]

\* a variant whose group minor takes at most three characters
PYTHON_PATTERN_short(name) == Match(name, 3, 5)

\* PYTHON_PATTERN.match(path.name)
PYTHON_PATTERN(name) == Match(name, 4, 5)

\* int(match.group("major"))
RECURSIVE StrToInt(_)
StrToInt(str) ==
  IF str = <<>> THEN 0
  ELSE 10 * StrToInt(SubSeq(str, 1, Len(str) - 1))
       + (CHOOSE d \in 0..9 : Digit(d) = str[Len(str)])

\* search_path.glob("*.zip")
glob_zip(name) ==
  Len(name) >= 4 /\ SubSeq(name, Len(name) - 3, Len(name)) = <<".", "z", "i", "p">>

\* one round of the loop of embed_versions: the record appended for the file
\* name, NoPython when the file is skipped
embed_version(name) ==
  LET match == PYTHON_PATTERN(name)
  IN IF ~glob_zip(name) \/ ~match.matched THEN NoPython
     ELSE EmbedPython(name, StrToInt(match.major), match.minor, match.tag,
                      match.arch)

\* the parts of which the file names of the embed directory are put together
NamePrefixes == {<<"p", "y", "t", "h", "o", "n", "-">>, <<"P", "y", "t", "h", "o", "n", "-">>}

NameMajors == {<<"3">>, <<"3", "1">>, <<>>}

NameSeps == {<<".">>, <<"-">>}

NameMinors == {<<>>, <<"9">>, <<"9", "r", "c">>, <<"1", "2", "3", "4">>,
               <<"1", "2", "3", "4", "5">>}

NameTags == {<<>>, <<"1", "2">>, <<"1", "2", "3", "4", "5">>,
             <<"1", "2", "3", "4", "5", "6">>}

NameMids == {<<"-", "e", "m", "b", "e", "d", "-">>, <<"-", "e", "m", "b", "d", "-">>}

NameArchs == {<<>>, amd64, <<"a", ".", "z", "i", "p">>,
              <<"x", "-", "e", "m", "b", "e", "d", "-", "y">>}

NameExts == {<<".", "z", "i", "p">>, <<"x", "z", "i", "p">>, <<".", "z", "i">>}

ArchiveNames ==
  {pre \o major \o s1 \o minor \o s2 \o tag \o mid \o arch \o ext :
     pre \in NamePrefixes, major \in NameMajors, s1 \in NameSeps,
     minor \in NameMinors, s2 \in NameSeps, tag \in NameTags,
     mid \in NameMids, arch \in NameArchs, ext \in NameExts}

InitDiscover ==
  /\ InitCtl
  /\ nin = <<>>
  /\ nout = <<>>
  /\ nout2 = <<>>
  /\ npc = "file"
  /\ fin \in ArchiveNames
  /\ fout = [match |-> NoMatch, python |-> NoPython]

Discover ==
  /\ npc = "file"
  /\ fout' = [match |-> PYTHON_PATTERN(fin), python |-> embed_version(fin)]
  /\ npc' = "discovered"
  /\ UNCHANGED <<nin, nout, nout2, fin, ctlVars>>

NextDiscover == Discover

SpecDiscover == InitDiscover /\ [][NextDiscover]_vars

(***************************************************************************)
(* The list box: the archives are discovered, one display name is clicked  *)
(* and resolved against the archives                                       *)
(***************************************************************************)
\* python-<version>-embed-amd64.zip
Archive(version) ==
  <<"p", "y", "t", "h", "o", "n", "-">> \o version
    \o <<"-", "e", "m", "b", "e", "d", "-">> \o amd64 \o <<".", "z", "i", "p">>

ListedArchives ==
  {Archive(<<"3", ".", "1", ".", "0">>), Archive(<<"3", ".", "1", "0", ".", "0">>),
   Archive(<<"3", ".", "9", ".", "1", "2">>), Archive(<<"3", ".", "9", ".", "1", "3">>),
   Archive(<<"2", ".", "7", ".", "1", "8">>)}

\* the directory listings: the archives of the directory in glob order
Listings ==
  {l \in UNION {[1..n -> ListedArchives] : n \in 1..MaxArchives} : NoDup(l)}

\* embed_versions(search_path) for the listing names
RECURSIVE embed_versions_in(_)
embed_versions_in(names) ==
  IF names = <<>> THEN <<>>
  ELSE LET py == embed_version(Head(names))
       IN (IF py = NoPython THEN <<>> ELSE <<py>>) \o embed_versions_in(Tail(names))

\* embed_python_by(name, search_path) over the versions discovered
RECURSIVE FirstEmbedIn(_, _)
FirstEmbedIn(name, versions) ==
  IF versions = <<>> THEN NoPython
  ELSE IF _is_embed_python(name, Head(versions)) THEN Head(versions)
  ELSE FirstEmbedIn(name, Tail(versions))

\* get_python_versions fills the list box; the entry clicked is resolved by
\* PythonConfigService.embed_python_by
ResolveClicked(names, index) ==
  LET name == full_name(embed_versions_in(names)[index])
  IN IF IsBlank(name) THEN NoPython
     ELSE FirstEmbedIn(name, embed_versions_in(names))

InitListBox ==
  /\ InitCtl
  /\ nin = <<>>
  /\ nout = <<>>
  /\ nout2 = <<>>
  /\ npc = "listed"
  /\ fin \in {[names |-> l, index |-> i] : l \in Listings, i \in 1..MaxArchives}
  /\ fin.index <= Len(embed_versions_in(fin.names))
  /\ fout = NoPython

Click ==
  /\ npc = "listed"
  /\ fout' = ResolveClicked(fin.names, fin.index)
  /\ npc' = "clicked"
  /\ UNCHANGED <<nin, nout, nout2, fin, ctlVars>>

NextListBox == Click

SpecListBox == InitListBox /\ [][NextListBox]_vars

(***************************************************************************)
(* embed_python_by applied to a display name                               *)
(***************************************************************************)
NameChars == {" ", "3", ".", "1", "0", "9"}

NameInputs == UNION {[1..n -> NameChars] : n \in 0..MaxNameLen}

InitResolve ==
  /\ InitCtl
  /\ nin = <<>>
  /\ nout = <<>>
  /\ nout2 = <<>>
  /\ npc = "name"
  /\ fin \in NameInputs
  /\ fout = NoPython

Resolve ==
  /\ npc = "name"
  /\ fout' = embed_python_by(fin)
  /\ npc' = "resolved"
  /\ UNCHANGED <<nin, nout, nout2, fin, ctlVars>>

NextResolve == Resolve

SpecResolve == InitResolve /\ [][NextResolve]_vars

(***************************************************************************)
(* The equality of EmbedPython applied to two records                      *)
(***************************************************************************)
win32 == <<"w", "i", "n", "3", "2">>

EqRecords ==
  {EmbedPython(p, major, minor, tag, arch) :
     p \in {<<"z", "1">>, <<"z", "2">>}, major \in {2, 3},
     minor \in {<<"9">>, <<"1", "0">>}, tag \in {<<"0">>, <<"1", "2">>},
     arch \in {amd64, win32}}

InitEquality ==
  /\ InitCtl
  /\ nin = <<>>
  /\ nout = <<>>
  /\ nout2 = <<>>
  /\ npc = "pair"
  /\ fin \in EqRecords \X EqRecords
  /\ fout = FALSE

Compare ==
  /\ npc = "pair"
  /\ fout' = EmbedPythonEq(fin[1], fin[2])
  /\ npc' = "compared"
  /\ UNCHANGED <<nin, nout, nout2, fin, ctlVars>>

NextEquality == Compare

SpecEquality == InitEquality /\ [][NextEquality]_vars

TypeOK ==
  /\ tree_serial \in 0..MaxId
  /\ DOMAIN uuid \subseteq 1..tree_serial
  /\ current_id \in 0..tree_serial
  /\ SeqRange(deleted) \subseteq 1..tree_serial
  /\ enabled \subseteq {"save", "add", "remove", "open"}

(***************************************************************************)
(* Properties                                                              *)
(***************************************************************************)
Children(u, f) ==
  {id \in DOMAIN u : u[id].kind = "entry" /\ u[id].parent_uuid = f}

LiveFiles(u) == {id \in DOMAIN u : u[id].kind = "file"}

SiteOfPython == user_site_pkg_path(python)

\* C1: an add-entry command whose value equals the value of an entry already
\* under the target file leaves the number of entries of that file unchanged,
\* both in the file's entry sequence and among the registered nodes
C1_DuplicateAddIsNoOp ==
  [][ ( /\ last'.cmd = "add_entry"
        /\ tree_serial' # tree_serial
        /\ \E e \in Children(uuid, last'.id) : uuid[e].path = last'.val )
      => /\ Len(uuid'[last'.id].content) <= Len(uuid[last'.id].content)
         /\ Cardinality(Children(uuid', last'.id))
              <= Cardinality(Children(uuid, last'.id)) ]_vars

\* C2: when a path file whose file exists on disk has been removed from the
\* tree and the next command is a save (here: a save that raises nothing),
\* the file does not exist after the save; if moreover every path file left
\* in the tree is empty, no file is left in the site directory
C2_RemovedFileDeletedOnSave ==
  [][ ( /\ last.cmd = "remove"
        /\ last.path # NoPath
        /\ disk[last.path].exists
        /\ last'.cmd = "save"
        /\ last'.out = "ok" )
      => /\ ~ disk'[last.path].exists
         /\ (\A f \in LiveFiles(uuid) : Children(uuid, f) = {})
              => \A p \in Paths : p.dir = SiteOfPython => ~ disk'[p].exists ]_vars

\* C3: removing a path file evicts, in that step, the file and every entry
\* registered under it from the uuid dict and appends exactly these ids, each
\* once, to the deletion log; the deletion log never holds an id twice
C3_RemoveFileEvictsEntries ==
  [][ /\ NoDup(deleted')
      /\ (last'.cmd = "remove" /\ last'.path # NoPath /\ deleted' # deleted)
         => LET gone == {current_id} \cup Children(uuid, current_id)
                added == SubSeq(deleted', Len(deleted) + 1, Len(deleted'))
            IN /\ DOMAIN uuid' = DOMAIN uuid \ gone
               /\ SubSeq(deleted', 1, Len(deleted)) = deleted
               /\ SeqRange(added) = gone
               /\ Len(added) = Cardinality(gone) ]_vars

\* a path file with two entries has just been removed
C3_Witness ==
  /\ last.cmd = "remove"
  /\ last.path # NoPath
  /\ deleted = <<1, 2, 3>>

\* C4: a step that changes the active version leaves the deletion log empty
\* and no id handed out before the step resolves in the uuid dict afterwards
C4_SwitchClearsTree ==
  [][ python' # python
      => /\ deleted' = <<>>
         /\ DOMAIN uuid' \cap (1..tree_serial) = {} ]_vars

\* the version was switched away from a tree that had nodes
C4_Witness ==
  /\ last.cmd = "on_version_select"
  /\ last.out = "ok"
  /\ python # NoPython
  /\ tree_serial > Cardinality(DOMAIN uuid)

\* C5: after a save every path file of the tree that has no entries has no
\* file on disk, and the save wrote no file for a path file without entries
C5_EmptyFileDeletedOnSave ==
  (last.cmd = "save" /\ last.out # "return")
  => /\ \A f \in LiveFiles(uuid) :
          Children(uuid, f) = {} => ~ disk[uuid[f].path].exists
     /\ \A i \in 1..Len(last.log) :
          last.log[i].op = "write"
          => \E f \in LiveFiles(uuid) :
               uuid[f].path = last.log[i].path /\ Children(uuid, f) # {}

\* C6: a save of a tree holding an empty path file whose location is absent
\* from disk raises no error for the absent file and leaves the location absent
C6_DeleteAbsentIsSilent ==
  [][ last'.cmd = "save"
      => \A f \in LiveFiles(uuid) :
           (Children(uuid, f) = {} /\ ~ disk[uuid[f].path].exists)
           => /\ last'.out # "FileNotFoundError"
              /\ ~ disk'[uuid[f].path].exists ]_vars

\* C7: a save visits every path file of the tree, also after a write or a
\* delete has failed, and it returns the failures instead of raising
C7_SaveVisitsEveryFile ==
  (last.cmd = "save" /\ last.out # "return")
  => /\ \A f \in LiveFiles(uuid) :
          \E i \in 1..Len(last.log) : last.log[i].path = uuid[f].path
     /\ last.out = "ok"

\* C8: after a save that raised nothing the deletion log is empty, no node is
\* marked changed and contains_unsaved is false
C8_NothingUnsavedAfterSave ==
  (last.cmd = "save" /\ last.out = "ok")
  => /\ deleted = <<>>
     /\ \A id \in DOMAIN uuid : ~ uuid[id].changed
     /\ \A answer \in BOOLEAN : ~ contains_unsaved(answer)

\* C9: every entry registered in the uuid dict has a parent_uuid that is
\* registered in the uuid dict as a path file
C9_EntryParentIsLiveFile ==
  \A id \in DOMAIN uuid :
    uuid[id].kind = "entry"
    => /\ uuid[id].parent_uuid \in DOMAIN uuid
       /\ uuid[uuid[id].parent_uuid].kind = "file"

\* an entry is registered after a remove command has evicted a node
C9_Witness ==
  /\ last.cmd = "remove"
  /\ last.out = "ok"
  /\ \E id \in DOMAIN uuid : uuid[id].kind = "entry"

\* C10: applying the normalizer to its own result changes nothing
C10_NormalizeIdempotent ==
  npc = "twice" => nout2 = nout

\* the text a save writes for the path file f: the normalized values of the
\* entries in its entry sequence, one per line
ExpectedText(u, f) ==
  Join([i \in 1..Len(u[f].content) |-> _get_path(u[u[f].content[i]].path)], NL)

\* C11: after a save that raised nothing, the file of every path file of the
\* tree that has an entry exists and holds exactly the normalized values of
\* the entries in its entry sequence, in order, joined by newline
C11_SavedContentIsNormalizedEntries ==
  (last.cmd = "save" /\ last.out = "ok")
  => \A f \in LiveFiles(uuid) :
       uuid[f].content # <<>> => disk[uuid[f].path] = Present(ExpectedText(uuid, f))

\* C12: a remove command whose selected id is not registered in the uuid dict
\* ends with the exception of _current_model and leaves the uuid dict (so
\* every entry sequence) and the deletion log unchanged
C12_RemoveUnknownIdFails ==
  [][ (last'.cmd = "remove" /\ current_id \notin DOMAIN uuid)
      => /\ last'.out = "Exception"
         /\ uuid' = uuid
         /\ deleted' = deleted ]_vars

\* remove was invoked on an id that an earlier remove had evicted
C12_Witness ==
  /\ last.cmd = "remove"
  /\ last.out = "Exception"
  /\ current_id \in SeqRange(deleted)
  /\ current_id \notin DOMAIN uuid

\* C13: a version switch builds the tree as a mirror of the site directory:
\* each file on disk has exactly one path file, under an id never issued
\* before and not changed, whose entry sequence holds one registered entry
\* per line, in line order, each under a fresh id, with the file's id as
\* parent and not changed; the tree holds nothing else
C13_LoadMirrorsDisk ==
  [][ (last'.cmd = "on_version_select" /\ last'.out = "ok")
      => LET dir == user_site_pkg_path(python')
             onDisk == {p \in Paths : p.dir = dir /\ disk[p].exists}
         IN /\ \A p \in onDisk :
                 \E f \in LiveFiles(uuid') :
                   LET lines == read_path_file(disk, p)
                       content == uuid'[f].content
                   IN /\ uuid'[f].path = p
                      /\ \A g \in LiveFiles(uuid') : uuid'[g].path = p => g = f
                      /\ f > tree_serial
                      /\ ~uuid'[f].changed
                      /\ Len(content) = Len(lines)
                      /\ NoDup(content)
                      /\ Children(uuid', f) = SeqRange(content)
                      /\ \A j \in 1..Len(lines) :
                           /\ content[j] \in DOMAIN uuid'
                           /\ content[j] > tree_serial
                           /\ uuid'[content[j]].kind = "entry"
                           /\ uuid'[content[j]].path = lines[j]
                           /\ uuid'[content[j]].parent_uuid = f
                           /\ ~uuid'[content[j]].changed
            /\ \A f \in LiveFiles(uuid') : uuid'[f].path \in onDisk
            /\ \A e \in DOMAIN uuid' :
                 uuid'[e].kind = "entry" => uuid'[e].parent_uuid \in LiveFiles(uuid') ]_vars

\* a switch has loaded a file of two lines and a file without lines
C13_Witness ==
  /\ last.cmd = "on_version_select"
  /\ last.out = "ok"
  /\ \E f, g \in LiveFiles(uuid) :
       Len(uuid[f].content) = 2 /\ Len(uuid[g].content) = 0

\* C14: adding a path file registers, under an id never issued before, one
\* new path file of the active site directory that has no entries and is
\* changed; every other node, the deletion log and the active version stay
\* as they were
C14_AddFileFrame ==
  [][ (last'.cmd = "add_file" /\ last'.out = "ok")
      => /\ \E new \in DOMAIN uuid' :
              /\ new > tree_serial
              /\ DOMAIN uuid' = DOMAIN uuid \cup {new}
              /\ uuid'[new].kind = "file"
              /\ uuid'[new].content = <<>>
              /\ uuid'[new].changed
              /\ uuid'[new].uuid = new
              /\ uuid'[new].path.dir = SiteOfPython
         /\ \A id \in DOMAIN uuid : uuid'[id] = uuid[id]
         /\ deleted' = deleted
         /\ python' = python ]_vars

\* a path file was added to a tree that holds other nodes
C14_Witness ==
  /\ last.cmd = "add_file"
  /\ last.out = "ok"
  /\ tree_serial \in LiveFiles(uuid)
  /\ uuid[tree_serial].content = <<>>
  /\ uuid[tree_serial].changed
  /\ Cardinality(DOMAIN uuid) > 1

\* the candidates, by position in discovery order, whose "<major>.<minor>"
\* string occurs in name
Qualifying(name) ==
  {i \in 1..Len(embed_versions) :
     LET sv == IntToStr(embed_versions[i].major) \o <<".">> \o embed_versions[i].minor
     IN \E k \in 1..Len(name) :
          k + Len(sv) - 1 <= Len(name) /\ SubSeq(name, k, k + Len(sv) - 1) = sv}

\* C15: the version resolved for a display name is the first candidate, in
\* discovery order, whose "<major>.<minor>" string is contained in the name;
\* it is None when no candidate qualifies and when the name is blank or empty
C15_ResolveFirstMatch ==
  npc = "resolved"
  => IF IsBlank(fin) \/ Qualifying(fin) = {}
     THEN fout = NoPython
     ELSE fout = embed_versions[CHOOSE i \in Qualifying(fin) :
                                  \A j \in Qualifying(fin) : i <= j]

\* a name in which two candidates qualify was resolved to the earlier one
C15_Witness ==
  /\ npc = "resolved"
  /\ Qualifying(fin) = {2, 3}
  /\ fout = embed_versions[2]

\* C16: two version records are equal exactly when major, minor and tag agree
C16_EqualityIsVersionTriple ==
  npc = "compared"
  => (fout <=> /\ fin[1].major = fin[2].major
               /\ fin[1].minor = fin[2].minor
               /\ fin[1].tag = fin[2].tag)

\* C16 as amended: two version records are equal exactly when path, major and
\* minor agree; tag and architecture never affect equality
C16_EqualityIsPathMajorMinor ==
  npc = "compared"
  => (fout <=> /\ fin[1].path = fin[2].path
               /\ fin[1].major = fin[2].major
               /\ fin[1].minor = fin[2].minor)

\* two records that differ in tag and architecture compared equal
C16_Witness ==
  /\ npc = "compared"
  /\ fout
  /\ fin[1].tag # fin[2].tag
  /\ fin[1].architecture # fin[2].architecture

\* the ways to read name as python-<major>.<minor>.<tag>-embed-<arch>.zip
\* with literal dots: major one or more digits, minor up to four and tag up
\* to five alphanumerics
ConventionParses(name) ==
  {w \in UNION {UNION {{[major |-> SubSeq(name, 8, 7 + a),
                          minor |-> SubSeq(name, 9 + a, 8 + a + b),
                          tag |-> SubSeq(name, 10 + a + b, 9 + a + b + c),
                          arch |-> SubSeq(name, 17 + a + b + c, Len(name) - 4)] :
                         c \in 0..Min(5, Len(name) - 20 - a - b)} :
                   b \in 0..Min(4, Len(name) - 20 - a)} :
            a \in 1..(Len(name) - 20)} :
     /\ name = <<"p", "y", "t", "h", "o", "n", "-">> \o w.major \o <<".">>
                 \o w.minor \o <<".">> \o w.tag
                 \o <<"-", "e", "m", "b", "e", "d", "-">> \o w.arch
                 \o <<".", "z", "i", "p">>
     /\ \A i \in 1..Len(w.major) : w.major[i] \in Digits
     /\ \A i \in 1..Len(w.minor) : w.minor[i] \in Alnum
     /\ \A i \in 1..Len(w.tag) : w.tag[i] \in Alnum}

\* C17: for a file name of the form python-<major>.<minor>.<tag>-embed-<arch>.zip
\* the pattern matches and its groups are the major, minor, tag and arch
\* written in the name; the record of the file carries them, major as a number
C17_GroupsAreTheWrittenParts ==
  npc = "discovered"
  => \A w \in ConventionParses(fin) :
       /\ fout.match = [matched |-> TRUE, major |-> w.major, minor |-> w.minor,
                        tag |-> w.tag, arch |-> w.arch]
       /\ fout.python = EmbedPython(fin, StrToInt(w.major), w.minor, w.tag, w.arch)

\* a name with a minor of letters and digits and an arch that holds a dot
\* was matched
C17_Witness ==
  /\ npc = "discovered"
  /\ fout.match.matched
  /\ fout.match.major = <<"3", "1">>
  /\ fout.match.minor = <<"9", "r", "c">>
  /\ fout.match.arch = <<"a", ".", "z", "i", "p">>
  /\ ConventionParses(fin) # {}

\* the file name reads as python-<major>.<minor>.<tag>-embed-<arch>.<ext>
\* with literal dots, for some arch and some ext
ConventionAnyExt(name) ==
  \E a \in 1..Len(name), b \in 0..4, c \in 0..5 :
    /\ At(name, 1, <<"p", "y", "t", "h", "o", "n", "-">>)
    /\ \A i \in 8..(7 + a) : i <= Len(name) /\ name[i] \in Digits
    /\ At(name, 8 + a, <<".">>)
    /\ \A i \in (9 + a)..(8 + a + b) : i <= Len(name) /\ name[i] \in Alnum
    /\ At(name, 9 + a + b, <<".">>)
    /\ \A i \in (10 + a + b)..(9 + a + b + c) : i <= Len(name) /\ name[i] \in Alnum
    /\ At(name, 10 + a + b + c, <<"-", "e", "m", "b", "e", "d", "-">>)
    /\ \E k \in (17 + a + b + c)..Len(name) : name[k] = "."

\* C18: a record is appended for a file only if its name reads as
\* python-<major>.<minor>.<tag>-embed-<arch>.<ext> with literal dots
C18_OnlyConventionalNamesYield ==
  (npc = "discovered" /\ fout.python # NoPython) => ConventionAnyExt(fin)

\* C19: every entry in the entry sequence of a registered path file is
\* registered and carries the id of that file as its parent id
C19_EntriesCarryFileId ==
  \A f \in LiveFiles(uuid) :
    \A i \in 1..Len(uuid[f].content) :
      /\ uuid[f].content[i] \in DOMAIN uuid
      /\ uuid[uuid[f].content[i]].parent_uuid = f

\* a loaded path file holds its two loaded entries and an added one
C19_Witness ==
  \E f \in LiveFiles(uuid) :
    /\ Len(uuid[f].content) = 3
    /\ \E i, j \in 1..3 : ~uuid[uuid[f].content[i]].changed
                          /\ uuid[uuid[f].content[j]].changed

\* the removal of an entry evicts that entry alone, takes it out of the
\* entry sequence of its parent and marks the parent as changed; the parent
\* stays registered and is not appended to the deletion log
RemoveEntryStep ==
  ( /\ last'.cmd = "remove"
    /\ last'.out = "ok"
    /\ current_id \in DOMAIN uuid
    /\ uuid[current_id].kind = "entry" )
  => LET parent == uuid[current_id].parent_uuid
     IN /\ DOMAIN uuid' = DOMAIN uuid \ {current_id}
        /\ deleted' = Append(deleted, current_id)
        /\ parent \in LiveFiles(uuid')
        /\ current_id \notin SeqRange(uuid'[parent].content)
        /\ uuid'[parent].changed
        /\ parent \notin SeqRange(deleted')

\* when the removal of an entry has left its path file without entries, the
\* save that follows, unless the OS refuses an operation, leaves no file at
\* the location of that path file
NextSaveDeletes ==
  ( /\ last.cmd = "remove"
    /\ last.out = "ok"
    /\ last.id \in LiveFiles(uuid)
    /\ uuid[last.id].content = <<>>
    /\ last'.cmd = "save"
    /\ last'.out # "OSError" )
  => ~disk'[uuid[last.id].path].exists

\* C20: removing an entry evicts only that entry, detaches it from its parent
\* and marks the parent as changed; a parent left without entries stays
\* registered and out of the deletion log, and the next save deletes its file
C20_RemoveEntryThenSave ==
  [][RemoveEntryStep /\ NextSaveDeletes]_vars

\* the conditions under which a version select may change the active version:
\* none is active, or the deletion log is empty and no node is changed or the
\* user answered no to the prompt
SwitchAllowed ==
  \/ python = NoPython
  \/ /\ deleted = <<>>
     /\ \/ \A id \in DOMAIN uuid : ~uuid[id].changed
        \/ last'.val = <<"n">>

\* C21: a version select changes the active version only if no version is
\* active, or the deletion log is empty and no node is changed or the user
\* declined the prompt; otherwise it leaves the active version, the uuid
\* dict, the deletion log and the disk as they were
C21_SwitchOnlyWhenNothingUnsaved ==
  [][ last'.cmd = "on_version_select"
      => /\ python' # python => SwitchAllowed
         /\ ~SwitchAllowed => /\ python' = python
                              /\ uuid' = uuid
                              /\ deleted' = deleted
         /\ disk' = disk ]_vars

\* a version was selected over changed nodes after the user declined to save
C21_Witness ==
  /\ last.cmd = "on_version_select"
  /\ last.out = "ok"
  /\ last.val = <<"n">>

\* the last command made another version the active one
Switched == last.cmd = "on_version_select" /\ last.out = "ok"

\* no version select can register its tree within the ids of the run
IdsExhausted ==
  \A index \in 1..Len(embed_versions) : \A order \in GlobOrders :
    LET py == embed_python_by(full_name(embed_versions[index]))
    IN \/ py = NoPython
       \/ EmbedPythonEq(python, py)
       \/ tree_serial + NodesNeeded(path_files_from(disk, user_site_pkg_path(py), order))
            > MaxId

\* C22: in the session of a user who keeps selecting versions, every state
\* with an active version is followed by a version select that makes another
\* version the active one (as long as the run has ids left)
C22_SwitchingStaysPossible ==
  (python # NoPython /\ ~Switched) ~> (Switched \/ IdsExhausted)

\* under an active version a deletion log that is not empty stays so and the
\* version stays active, whatever command follows
DeletionLogBlocksForGood ==
  [][ (python # NoPython /\ deleted # <<>>)
      => (python' = python /\ deleted' # <<>>) ]_vars

\* C23: a selection id that is set resolves to a node of the uuid dict
C23_SelectionResolves ==
  current_id # NoId => current_id \in DOMAIN uuid

\* C24: no two registered path files have the same location, and a save
\* visits no location twice
C24_LocationsAreUnique ==
  /\ \A f, g \in LiveFiles(uuid) : uuid[f].path = uuid[g].path => f = g
  /\ last.cmd = "save"
     => \A i, j \in 1..Len(last.log) : last.log[i].path = last.log[j].path => i = j

\* a tree without nodes stays without nodes while its version is active
EmptyTreeStaysEmpty ==
  [][ (python # NoPython /\ uuid = EmptyDict /\ python' = python)
      => uuid' = EmptyDict ]_vars

\* the last command registered a new path file
AddedFile == last.cmd = "add_file" /\ last.out = "ok"

\* C26: in the session of a user who keeps adding path files, a tree without
\* nodes under an active version is followed, while that version stays
\* active, by a tree that holds a newly added path file (as long as the run
\* has ids left)
C26_AddFileReachable ==
  \A i \in 1..Len(embed_versions) :
    (python = embed_versions[i] /\ uuid = EmptyDict /\ tree_serial < MaxId)
      ~> (AddedFile \/ python # embed_versions[i])

\* C25: the version resolved for the display name of a discovered record is
\* that record
C25_DisplayNameRoundTrip ==
  npc = "clicked" => fout = embed_versions_in(fin.names)[fin.index]

====
